---- MODULE Spec2Model ----
(***************************************************************************)
(* Model of the ASPEED INTC interrupt aggregation controller               *)
(* (hw/intc/aspeed_intc.c).                                                *)
(*                                                                         *)
(* Encoding.  A uint32_t bitmask is the set of its set bit positions, a    *)
(* subset of 0..31: x & y is x \cap y, x | y is x \cup y, x & ~y is x \ y, *)
(* x ^ y is the symmetric difference, 0 is {} and 0xffffffff is 0..31.     *)
(* s->regs is a function from register index (offset >> 2) to a bitmask;   *)
(* s->enable, s->mask and s->pending are functions from input pin to a     *)
(* bitmask; output_pins is the level last given to qemu_set_irq for each   *)
(* output pin (0 before any call).                                         *)
(***************************************************************************)
EXTENDS Integers, FiniteSets, Sequences, TLC

\* aic->num_lines of the 2700 class: source lines per input pin.
num_lines == 32
\* aic->num_inpins of the 2700 class.
num_inpins == 9
\* aic->num_outpins of the 2700 class.
num_outpins == 9
\* Source bit positions 0..SrcBits-1 are the ones the inputs assert and write.
SrcBits == 2

Lines == 0 .. (num_lines - 1)
\* 0xffffffff
AllOnes == 0 .. 31

\* Level snapshots delivered by the OR gate and values written to the enable
\* register.
Vals == SUBSET (0 .. (SrcBits - 1))
\* Values written to the status register: the same and the all-ones write.
StVals == Vals \cup {AllOnes}
Inpins == 0 .. (num_inpins - 1)
Outpins == 0 .. (num_outpins - 1)
\* Channel indexes the operations are called with: channel 0 and the index one
\* past the last valid channel.  The other channels keep their reset state.
Irqs == {0, num_inpins}
\* Data of the calls with channel index c: every value for a valid channel;
\* zero and source 0 (and all-ones, for the status register) for the index
\* past the last one.
ValsFor(c) == IF c \in Inpins THEN Vals ELSE {{}, {0}}
StValsFor(c) == ValsFor(c) \cup {AllOnes}

Xor(a, b) == (a \ b) \cup (b \ a)

\* REG32(GICINTn_EN, 0x100 * n) and REG32(GICINTn_STATUS, 0x100 * n + 4)
EnOffset(irq) == 256 * irq
StatusOffset(irq) == 256 * irq + 4
\* R_GICINT128_STATUS
GICINT_STATUS_BASE == 1
\* reg = offset >> 2
RegOf(offset) == offset \div 4
\* Variant: the channel field is extracted with the mask 0x0700.
IrqOf_narrow(offset) == (offset % 2048) \div 256
\* irq = (offset & 0x0f00) >> 8
IrqOf(offset) == (offset % 4096) \div 256
\* Variant: every channel uses the status register of channel 0.
StatusReg_base(irq) == GICINT_STATUS_BASE
\* status_reg = GICINT_STATUS_BASE + ((0x100 * irq) >> 2)
StatusReg(irq) == GICINT_STATUS_BASE + ((256 * irq) \div 4)
EnReg(irq) == RegOf(EnOffset(irq))

RegIdx == {RegOf(EnOffset(i)) : i \in Inpins}
            \cup {RegOf(StatusOffset(i)) : i \in Inpins}

VARIABLES regs, enable, mask, pending, output_pins, en_written, last

\* regs, enable, mask, pending: the fields of AspeedINTCState.
\* output_pins: the level of each output line.
\* en_written: history, the last raw value written to each enable register.
\* last: history, the operation that produced the current state, its channel
\*       index, its data and the call it made to aspeed_intc_update.
vars == <<regs, enable, mask, pending, output_pins, en_written, last>>

\* The device state as one record, the argument and the result of the handlers.
\* drive records the call to qemu_set_irq made by the handler, if any.
State == [regs |-> regs, enable |-> enable, mask |-> mask,
          pending |-> pending, output_pins |-> output_pins, drive |-> "none"]

\* aspeed_intc_update: range checks, then qemu_set_irq(output_pins[outpin], level)
aspeed_intc_update(s, inpin_idx, outpin_idx, level) ==
    IF inpin_idx >= num_inpins THEN s
    ELSE IF outpin_idx >= num_outpins THEN s
    ELSE [s EXCEPT !.output_pins[outpin_idx] = level,
                   !.drive = IF level = 1 THEN "high" ELSE "low"]

\* Variant: the asserted lines are not filtered by the enable mask.
SelectOf_unfiltered(en, levels) == {i \in Lines : i \in levels}

\* The select loop of aspeed_intc_set_irq: asserted lines that are enabled.
SelectOf(en, levels) == {i \in Lines : i \in levels /\ i \in en}

\* Variant: the status register is set but the output line is not raised.
aspeed_intc_set_irq_noraise(s, irq, level, levels) ==
    IF irq >= num_inpins THEN s
    ELSE IF level = 0 THEN s
    ELSE LET select == SelectOf(s.enable[irq], levels)
             status_reg == StatusReg(irq)
         IN IF select = {} THEN s
            ELSE IF s.mask[irq] # {} \/ s.regs[status_reg] # {}
                 THEN [s EXCEPT !.pending[irq] = @ \cup select]
                 ELSE [s EXCEPT !.regs[status_reg] = select]

\* Variant: pending is overwritten by select instead of OR-ed with it.
aspeed_intc_set_irq_overwrite(s, irq, level, levels) ==
    IF irq >= num_inpins THEN s
    ELSE IF level = 0 THEN s
    ELSE LET select == SelectOf(s.enable[irq], levels)
             status_reg == StatusReg(irq)
         IN IF select = {} THEN s
            ELSE IF s.mask[irq] # {} \/ s.regs[status_reg] # {}
                 THEN [s EXCEPT !.pending[irq] = select]
                 ELSE aspeed_intc_update([s EXCEPT !.regs[status_reg] = select],
                                         irq, irq, 1)

\* Variant: the busy test looks at the mask only, not at the status register.
aspeed_intc_set_irq_maskonly(s, irq, level, levels) ==
    IF irq >= num_inpins THEN s
    ELSE IF level = 0 THEN s
    ELSE LET select == SelectOf(s.enable[irq], levels)
             status_reg == StatusReg(irq)
         IN IF select = {} THEN s
            ELSE IF s.mask[irq] # {}
                 THEN [s EXCEPT !.pending[irq] = @ \cup select]
                 ELSE aspeed_intc_update([s EXCEPT !.regs[status_reg] = select],
                                         irq, irq, 1)

\* Variant: a busy channel queues only the sources that are not latched.
aspeed_intc_set_irq_newonly(s, irq, level, levels) ==
    IF irq >= num_inpins THEN s
    ELSE IF level = 0 THEN s
    ELSE LET select == SelectOf(s.enable[irq], levels)
             status_reg == StatusReg(irq)
         IN IF select = {} THEN s
            ELSE IF s.mask[irq] # {} \/ s.regs[status_reg] # {}
                 THEN [s EXCEPT !.pending[irq] =
                                    @ \cup (select \ s.regs[status_reg])]
                 ELSE aspeed_intc_update([s EXCEPT !.regs[status_reg] = select],
                                         irq, irq, 1)

\* Variant: a busy channel with nothing queued yet latches over the status.
aspeed_intc_set_irq_relatch(s, irq, level, levels) ==
    IF irq >= num_inpins THEN s
    ELSE IF level = 0 THEN s
    ELSE LET select == SelectOf(s.enable[irq], levels)
             status_reg == StatusReg(irq)
         IN IF select = {} THEN s
            ELSE IF s.mask[irq] # {} \/ s.pending[irq] # {}
                 THEN [s EXCEPT !.pending[irq] = @ \cup select]
                 ELSE aspeed_intc_update([s EXCEPT !.regs[status_reg] = select],
                                         irq, irq, 1)

\* aspeed_intc_set_irq(opaque, irq, level); levels is orgates[irq].levels
aspeed_intc_set_irq(s, irq, level, levels) ==
    IF irq >= num_inpins THEN s
    ELSE IF level = 0 THEN s
    ELSE LET select == SelectOf(s.enable[irq], levels)
             status_reg == StatusReg(irq)
         IN IF select = {} THEN s
            ELSE IF s.mask[irq] # {} \/ s.regs[status_reg] # {}
                 THEN [s EXCEPT !.pending[irq] = @ \cup select]
                 ELSE aspeed_intc_update([s EXCEPT !.regs[status_reg] = select],
                                         irq, irq, 1)

\* Variant: an unmask that empties the mask replays pending into status.
aspeed_intc_enable_handler_replay(s, offset, data) ==
    LET reg == RegOf(offset)
        inpin_idx == IrqOf(offset)
    IN IF inpin_idx >= num_inpins THEN s
       ELSE IF data = {} /\ s.enable[inpin_idx] = {}
            THEN [s EXCEPT !.regs[reg] = data]
       ELSE LET old_enable == s.enable[inpin_idx]
                new_enable == old_enable \cup data
            IN IF old_enable # new_enable
               THEN [s EXCEPT !.enable[inpin_idx] = new_enable,
                              !.regs[reg] = data]
               ELSE LET change == Xor(s.regs[reg], data)
                        u == [s EXCEPT !.mask[inpin_idx] = @ \ change,
                                       !.regs[reg] = data]
                    IN IF change \cap data # {}
                       THEN IF u.mask[inpin_idx] = {} /\ u.pending[inpin_idx] # {}
                            THEN aspeed_intc_update(
                                   [u EXCEPT !.regs[StatusReg(inpin_idx)] =
                                                 @ \cup u.pending[inpin_idx],
                                             !.pending[inpin_idx] = {}],
                                   inpin_idx, inpin_idx, 1)
                            ELSE u
                       ELSE [s EXCEPT !.mask[inpin_idx] = @ \cup change,
                                      !.regs[reg] = data]

\* Variant: enable is assigned the written value instead of OR-ed with it.
aspeed_intc_enable_handler_assign(s, offset, data) ==
    LET reg == RegOf(offset)
        inpin_idx == IrqOf(offset)
    IN IF inpin_idx >= num_inpins THEN s
       ELSE IF data = {} /\ s.enable[inpin_idx] = {}
            THEN [s EXCEPT !.regs[reg] = data]
       ELSE LET old_enable == s.enable[inpin_idx]
                new_enable == data
            IN IF old_enable # new_enable
               THEN [s EXCEPT !.enable[inpin_idx] = new_enable,
                              !.regs[reg] = data]
               ELSE LET change == Xor(s.regs[reg], data)
                    IN IF change \cap data # {}
                       THEN [s EXCEPT !.mask[inpin_idx] = @ \ change,
                                      !.regs[reg] = data]
                       ELSE [s EXCEPT !.mask[inpin_idx] = @ \cup change,
                                      !.regs[reg] = data]

\* Variant: the mask/unmask path does not store the written value.
aspeed_intc_enable_handler_nostore(s, offset, data) ==
    LET reg == RegOf(offset)
        inpin_idx == IrqOf(offset)
    IN IF inpin_idx >= num_inpins THEN s
       ELSE IF data = {} /\ s.enable[inpin_idx] = {}
            THEN [s EXCEPT !.regs[reg] = data]
       ELSE LET old_enable == s.enable[inpin_idx]
                new_enable == old_enable \cup data
            IN IF old_enable # new_enable
               THEN [s EXCEPT !.enable[inpin_idx] = new_enable,
                              !.regs[reg] = data]
               ELSE LET change == Xor(s.regs[reg], data)
                    IN IF change \cap data # {}
                       THEN [s EXCEPT !.mask[inpin_idx] = @ \ change]
                       ELSE [s EXCEPT !.mask[inpin_idx] = @ \cup change]

\* Variant: an unmask clears only the bits that went from 0 to 1.
aspeed_intc_enable_handler_setonly(s, offset, data) ==
    LET reg == RegOf(offset)
        inpin_idx == IrqOf(offset)
    IN IF inpin_idx >= num_inpins THEN s
       ELSE IF data = {} /\ s.enable[inpin_idx] = {}
            THEN [s EXCEPT !.regs[reg] = data]
       ELSE LET old_enable == s.enable[inpin_idx]
                new_enable == old_enable \cup data
            IN IF old_enable # new_enable
               THEN [s EXCEPT !.enable[inpin_idx] = new_enable,
                              !.regs[reg] = data]
               ELSE LET change == Xor(s.regs[reg], data)
                    IN IF change \cap data # {}
                       THEN [s EXCEPT !.mask[inpin_idx] = @ \ (change \cap data),
                                      !.regs[reg] = data]
                       ELSE [s EXCEPT !.mask[inpin_idx] = @ \cup change,
                                      !.regs[reg] = data]

\* Variant: a write of zero disables every source.
aspeed_intc_enable_handler_disable(s, offset, data) ==
    LET reg == RegOf(offset)
        inpin_idx == IrqOf(offset)
    IN IF inpin_idx >= num_inpins THEN s
       ELSE IF data = {}
            THEN [s EXCEPT !.enable[inpin_idx] = {}, !.regs[reg] = data]
       ELSE LET old_enable == s.enable[inpin_idx]
                new_enable == old_enable \cup data
            IN IF old_enable # new_enable
               THEN [s EXCEPT !.enable[inpin_idx] = new_enable,
                              !.regs[reg] = data]
               ELSE LET change == Xor(s.regs[reg], data)
                    IN IF change \cap data # {}
                       THEN [s EXCEPT !.mask[inpin_idx] = @ \ change,
                                      !.regs[reg] = data]
                       ELSE [s EXCEPT !.mask[inpin_idx] = @ \cup change,
                                      !.regs[reg] = data]

\* aspeed_intc_enable_handler(s, offset, data)
aspeed_intc_enable_handler(s, offset, data) ==
    LET reg == RegOf(offset)
        inpin_idx == IrqOf(offset)
    IN IF inpin_idx >= num_inpins THEN s
       ELSE IF data = {} /\ s.enable[inpin_idx] = {}
            THEN [s EXCEPT !.regs[reg] = data]
       ELSE LET old_enable == s.enable[inpin_idx]
                new_enable == old_enable \cup data
            IN IF old_enable # new_enable
               THEN [s EXCEPT !.enable[inpin_idx] = new_enable,
                              !.regs[reg] = data]
               ELSE LET change == Xor(s.regs[reg], data)
                    IN IF change \cap data # {}
                       THEN [s EXCEPT !.mask[inpin_idx] = @ \ change,
                                      !.regs[reg] = data]
                       ELSE [s EXCEPT !.mask[inpin_idx] = @ \cup change,
                                      !.regs[reg] = data]

\* Variant: the all-ones write is handled like any other acknowledgment.
aspeed_intc_status_handler_noallones(s, offset, data) ==
    LET reg == RegOf(offset)
        irq == IrqOf(offset)
    IN IF data = {} THEN s
       ELSE IF irq >= num_inpins THEN s
       ELSE LET c == [s EXCEPT !.regs[reg] = @ \ data]
            IN IF c.regs[reg] = {}
               THEN IF c.pending[irq] # {}
                    THEN aspeed_intc_update(
                             [c EXCEPT !.regs[reg] = c.pending[irq],
                                       !.pending[irq] = {}],
                             irq, irq, 1)
                    ELSE aspeed_intc_update(c, irq, irq, 0)
               ELSE c

\* Variant: a zero write is handled like any other acknowledgment.
aspeed_intc_status_handler_nozero(s, offset, data) ==
    LET reg == RegOf(offset)
        irq == IrqOf(offset)
    IN IF irq >= num_inpins THEN s
       ELSE LET c == [s EXCEPT !.regs[reg] = @ \ data]
            IN IF data = AllOnes THEN c
               ELSE IF c.regs[reg] = {}
                    THEN IF c.pending[irq] # {}
                         THEN aspeed_intc_update(
                                  [c EXCEPT !.regs[reg] = c.pending[irq],
                                            !.pending[irq] = {}],
                                  irq, irq, 1)
                         ELSE aspeed_intc_update(c, irq, irq, 0)
                    ELSE c

\* Variant: the replay and the line update do not wait for status to drain.
aspeed_intc_status_handler_eager(s, offset, data) ==
    LET reg == RegOf(offset)
        irq == IrqOf(offset)
    IN IF data = {} THEN s
       ELSE IF irq >= num_inpins THEN s
       ELSE LET c == [s EXCEPT !.regs[reg] = @ \ data]
            IN IF data = AllOnes THEN c
               ELSE IF c.pending[irq] # {}
                    THEN aspeed_intc_update(
                             [c EXCEPT !.regs[reg] = c.pending[irq],
                                       !.pending[irq] = {}],
                             irq, irq, 1)
                    ELSE aspeed_intc_update(c, irq, irq, 0)

\* Variant: the replay does not empty pending.
aspeed_intc_status_handler_keeppending(s, offset, data) ==
    LET reg == RegOf(offset)
        irq == IrqOf(offset)
    IN IF data = {} THEN s
       ELSE IF irq >= num_inpins THEN s
       ELSE LET c == [s EXCEPT !.regs[reg] = @ \ data]
            IN IF data = AllOnes THEN c
               ELSE IF c.regs[reg] = {}
                    THEN IF c.pending[irq] # {}
                         THEN aspeed_intc_update(
                                  [c EXCEPT !.regs[reg] = c.pending[irq]],
                                  irq, irq, 1)
                         ELSE aspeed_intc_update(c, irq, irq, 0)
                    ELSE c

\* Variant: a full acknowledgment lowers the line before the replay check.
aspeed_intc_status_handler_droponly(s, offset, data) ==
    LET reg == RegOf(offset)
        irq == IrqOf(offset)
    IN IF data = {} THEN s
       ELSE IF irq >= num_inpins THEN s
       ELSE LET c == [s EXCEPT !.regs[reg] = @ \ data]
            IN IF c.regs[reg] = {} /\ c.pending[irq] = {}
               THEN aspeed_intc_update(c, irq, irq, 0)
               ELSE IF data = AllOnes THEN c
               ELSE IF c.regs[reg] = {}
                    THEN aspeed_intc_update(
                             [c EXCEPT !.regs[reg] = c.pending[irq],
                                       !.pending[irq] = {}],
                             irq, irq, 1)
                    ELSE c

\* aspeed_intc_status_handler(s, offset, data)
aspeed_intc_status_handler(s, offset, data) ==
    LET reg == RegOf(offset)
        irq == IrqOf(offset)
    IN IF data = {} THEN s
       ELSE IF irq >= num_inpins THEN s
       ELSE LET c == [s EXCEPT !.regs[reg] = @ \ data]
            IN IF data = AllOnes THEN c
               ELSE IF c.regs[reg] = {}
                    THEN IF c.pending[irq] # {}
                         THEN aspeed_intc_update(
                                  [c EXCEPT !.regs[reg] = c.pending[irq],
                                            !.pending[irq] = {}],
                                  irq, irq, 1)
                         ELSE aspeed_intc_update(c, irq, irq, 0)
                    ELSE c

\* aspeed_intc_read(opaque, offset, size)
aspeed_intc_read(offset) == regs[RegOf(offset)]

\* aspeed_intc_reset: the four memsets; no output pin is touched.
aspeed_intc_reset(s) ==
    [s EXCEPT !.regs = [r \in RegIdx |-> {}],
              !.enable = [i \in Inpins |-> {}],
              !.mask = [i \in Inpins |-> {}],
              !.pending = [i \in Inpins |-> {}]]

\* The state after an operation: the handler's result, and the history.
Commit(t, op, irq, data) ==
    /\ regs' = t.regs
    /\ enable' = t.enable
    /\ mask' = t.mask
    /\ pending' = t.pending
    /\ output_pins' = t.output_pins
    /\ last' = [op |-> op, irq |-> irq, data |-> data, drive |-> t.drive]

\* State after construction: nothing written, every output line low.
Init ==
    /\ regs = [r \in RegIdx |-> {}]
    /\ enable = [i \in Inpins |-> {}]
    /\ mask = [i \in Inpins |-> {}]
    /\ pending = [i \in Inpins |-> {}]
    /\ output_pins = [o \in Outpins |-> 0]
    /\ en_written = [i \in Inpins |-> {}]
    /\ last = [op |-> "init", irq |-> 0, data |-> {}, drive |-> "none"]

\* The OR gate of channel c holds the levels m and calls aspeed_intc_set_irq
\* with the OR of them: the state that follows state s.
NotifyResult(s, c, m) == aspeed_intc_set_irq(s, c, IF m = {} THEN 0 ELSE 1, m)

\* notify(c, m): the OR gate of channel c holds the levels m and calls
\* aspeed_intc_set_irq with the OR of them.
Notify(c, m) ==
    /\ Commit(NotifyResult(State, c, m), "notify", c, m)
    /\ UNCHANGED en_written

\* write_enable(c, v): a write of v to the enable register of channel c.
WriteEnable(c, v) ==
    /\ Commit(aspeed_intc_enable_handler(State, EnOffset(c), v),
              "write_enable", c, v)
    /\ en_written' = IF c \in Inpins THEN [en_written EXCEPT ![c] = v]
                     ELSE en_written

\* write_status(c, v): a write of v to the status register of channel c.
WriteStatus(c, v) ==
    /\ Commit(aspeed_intc_status_handler(State, StatusOffset(c), v),
              "write_status", c, v)
    /\ UNCHANGED en_written

\* The device reset.
Reset ==
    /\ Commit(aspeed_intc_reset(State), "reset", 0, {})
    /\ en_written' = [i \in Inpins |-> {}]

DoNotify == \E c \in Irqs : \E m \in ValsFor(c) : Notify(c, m)
DoWriteEnable == \E c \in Irqs : \E v \in ValsFor(c) : WriteEnable(c, v)
DoWriteStatus == \E c \in Irqs : \E v \in StValsFor(c) : WriteStatus(c, v)

\* The three operations, from the state after construction.
Next == DoNotify \/ DoWriteEnable \/ DoWriteStatus

Spec == Init /\ [][Next]_vars

\* The three operations and the reset.
NextReset == DoNotify \/ DoWriteEnable \/ DoWriteStatus \/ Reset

SpecReset == Init /\ [][NextReset]_vars

\* The operations on channel 0 with firmware that eventually acknowledges in
\* full; the history keeps the operation and the line it drove, not its data.
LiveNotify ==
    \E m \in Vals :
        /\ Commit(NotifyResult(State, 0, m), "notify", 0, {})
        /\ UNCHANGED en_written

LiveWriteEnable ==
    \E v \in Vals :
        /\ Commit(aspeed_intc_enable_handler(State, EnOffset(0), v),
                  "write_enable", 0, {})
        /\ en_written' = [en_written EXCEPT ![0] = v]

LiveWriteStatus ==
    \E v \in StVals :
        /\ Commit(aspeed_intc_status_handler(State, StatusOffset(0), v),
                  "write_status", 0, {})
        /\ UNCHANGED en_written

\* A write_status that acknowledges every latched source of channel 0 with a
\* value other than zero and all-ones.
DrainAck ==
    \E v \in StVals :
        /\ v # {}
        /\ v # AllOnes
        /\ regs[StatusReg(0)] \subseteq v
        /\ Commit(aspeed_intc_status_handler(State, StatusOffset(0), v),
                  "write_status", 0, {})
        /\ UNCHANGED en_written

LiveNext == LiveNotify \/ LiveWriteEnable \/ LiveWriteStatus

LiveSpec == Init /\ [][LiveNext]_vars /\ WF_vars(DrainAck)

\* Two channels driven together, each with one source: the calls on channels
\* 0 and 1 with source 0 asserted, written or acknowledged.
IsoIrqs == {0, 1}
IsoVals == {{}, {0}}
IsoStVals == {{0}, AllOnes}

IsoNotify == \E c \in IsoIrqs : \E m \in IsoVals : Notify(c, m)
IsoWriteEnable == \E c \in IsoIrqs : \E v \in IsoVals : WriteEnable(c, v)
IsoWriteStatus == \E c \in IsoIrqs : \E v \in IsoStVals : WriteStatus(c, v)

IsoNext == IsoNotify \/ IsoWriteEnable \/ IsoWriteStatus

IsoSpec == Init /\ [][IsoNext]_vars

\* Shorthands for the claims.
status(c) == regs[StatusReg(c)]
IsStep(op, c) == last'.op = op /\ last'.irq = c
Moved == <<regs, enable, mask, pending, output_pins>>

Quiesced(c) == status(c) = {} /\ mask[c] = {} /\ pending[c] = {}

\* C1 as stated: in every reachable state and for every channel c, status[c]
\* is non-zero if and only if the output line of c is high.
C1_LineMirrorsStatus ==
    \A c \in Inpins : (status(c) # {}) <=> (output_pins[c] = 1)

\* C1 amended: status[c] non-zero implies the output line of c is high, and
\* the line is high with status[c] zero only from a write_status(c, 0xFFFFFFFF)
\* on, until status[c] is set again.
C1_StatusImpliesLine ==
    /\ [](\A c \in Inpins : status(c) # {} => output_pins[c] = 1)
    /\ [][\A c \in Inpins :
            (regs'[StatusReg(c)] = {} /\ output_pins'[c] = 1)
            => \/ (status(c) = {} /\ output_pins[c] = 1)
               \/ (IsStep("write_status", c) /\ last'.data = AllOnes)]_vars

\* An all-ones status write has left the line of channel 0 high with no status.
C1_Witness ==
    /\ last.op = "write_status" /\ last.irq = 0 /\ last.data = AllOnes
    /\ status(0) = {}
    /\ output_pins[0] = 1

\* C2: a notify that arrives while status[c] is non-zero queues every asserted
\* and enabled source in pending[c]; a source leaves pending[c] only by the
\* replay that moves all of pending[c] into status[c] and empties it; and with
\* firmware that eventually acknowledges in full, every queued source
\* eventually appears in status[c].
C2_NoSourceLoss ==
    /\ (pending[0] # {}) ~> (pending[0] = {} /\ status(0) # {})
    /\ [](\A c \in Inpins : \A m \in Vals :
            status(c) # {}
            => LET t == NotifyResult(State, c, m)
               IN /\ t.pending[c] = pending[c] \cup SelectOf(enable[c], m)
                  /\ t.regs = regs
                  /\ t.output_pins = output_pins)
    /\ [][\A c \in Inpins : \A b \in pending[c] :
            b \notin pending'[c]
            => /\ IsStep("write_status", c)
               /\ regs'[StatusReg(c)] = pending[c]
               /\ pending'[c] = {}]_vars

\* A replay has just moved the queued sources of channel 0 into status.
C2_Witness ==
    /\ last.op = "write_status" /\ last.irq = 0 /\ last.drive = "high"
    /\ status(0) # {}
    /\ pending[0] = {}
    /\ mask[0] = {}

\* C3 as stated: the write_enable that returns masked[c] to zero replays the
\* queued sources into status[c] and raises the output line.
C3_ReplayOnUnmask ==
    [][\A c \in Inpins :
         (IsStep("write_enable", c) /\ mask[c] # {} /\ mask'[c] = {}
             /\ pending[c] # {})
         => /\ pending[c] \subseteq regs'[StatusReg(c)]
            /\ pending'[c] = {}
            /\ output_pins'[c] = 1]_vars

\* C3 amended: no write_enable, the unmask included, changes status[c],
\* pending[c] or the output line; the queued sources are replayed into
\* status[c], with the line raised and pending[c] emptied, by the write_status
\* with a value other than zero and all-ones that leaves status[c] zero, and
\* by no other step.
C3_ReplayOnDrain ==
    [][\A c \in Inpins :
         /\ IsStep("write_enable", c)
            => /\ pending'[c] = pending[c]
               /\ regs'[StatusReg(c)] = status(c)
               /\ output_pins' = output_pins
               /\ last'.drive = "none"
         /\ (IsStep("write_status", c) /\ last'.data \notin {{}, AllOnes}
                /\ status(c) \subseteq last'.data /\ pending[c] # {})
            => /\ regs'[StatusReg(c)] = pending[c]
               /\ pending'[c] = {}
               /\ output_pins'[c] = 1
         /\ (\E b \in pending[c] : b \notin pending'[c])
            => /\ IsStep("write_status", c)
               /\ last'.data \notin {{}, AllOnes}
               /\ status(c) \subseteq last'.data]_vars

\* Sources were queued while channel 0 was masked with nothing latched, the
\* mask has been lifted by a write_enable, and they are still pending.
C3_Witness ==
    /\ last.op = "write_enable" /\ last.irq = 0
    /\ mask[0] = {}
    /\ pending[0] # {}
    /\ status(0) = {}
    /\ output_pins[0] = 0

\* C4: a write_enable(c, value) puts every bit of value that was not enabled
\* into enabled[c] and not into masked[c]; a write whose bits are all enabled
\* already changes only masked[c] and the enable register.
C4_EnableVsMask ==
    [][\A c \in Inpins :
         IsStep("write_enable", c)
         => /\ \A b \in last'.data \ enable[c] :
                 b \in enable'[c] /\ b \notin mask'[c]
            /\ last'.data \subseteq enable[c]
               => /\ enable' = enable
                  /\ pending' = pending
                  /\ output_pins' = output_pins
                  /\ \A r \in RegIdx \ {EnReg(c)} : regs'[r] = regs[r]]_vars

\* A write of already enabled bits has masked a source of channel 0.
C4_Witness ==
    /\ last.op = "write_enable" /\ last.irq = 0
    /\ last.data # {}
    /\ last.data \subseteq enable[0]
    /\ mask[0] # {}
    /\ mask[0] \cap last.data = {}

\* C5: write_status(c, 0xFFFFFFFF) clears status[c], leaves pending[c] as it
\* is and does not drive the output line of c.
C5_AllOnesWrite ==
    [][\A c \in Inpins :
         (IsStep("write_status", c) /\ last'.data = AllOnes)
         => /\ regs'[StatusReg(c)] = {}
            /\ pending' = pending
            /\ output_pins' = output_pins
            /\ last'.drive = "none"]_vars

\* An all-ones write on channel 0 with sources pending: nothing was replayed.
C5_Witness ==
    /\ last.op = "write_status" /\ last.irq = 0 /\ last.data = AllOnes
    /\ last.drive = "none"
    /\ pending[0] # {}
    /\ status(0) = {}
    /\ output_pins[0] = 1

\* C6 as stated: on a quiesced channel with nothing pending, notify(c, m)
\* twice leaves the same status, pending and line as notify(c, m) once.
C6_NotifyIdempotent ==
    \A c \in Inpins :
        Quiesced(c)
        => \A m \in Vals :
             LET once == NotifyResult(State, c, m)
                 twice == NotifyResult(once, c, m)
             IN /\ twice.regs[StatusReg(c)] = once.regs[StatusReg(c)]
                /\ twice.pending[c] = once.pending[c]
                /\ twice.output_pins[c] = once.output_pins[c]

\* C6 amended: on a quiesced channel with nothing pending, notify(c, m) twice
\* leaves the same status and line as notify(c, m) once, and pending[c] equal
\* to m & enabled[c]: the second call queues what the first one latched.
C6_NotifyTwice ==
    \A c \in Inpins :
        Quiesced(c)
        => \A m \in Vals :
             LET once == NotifyResult(State, c, m)
                 twice == NotifyResult(once, c, m)
             IN /\ twice.regs[StatusReg(c)] = once.regs[StatusReg(c)]
                /\ twice.output_pins[c] = once.output_pins[c]
                /\ once.pending[c] = {}
                /\ twice.pending[c] = SelectOf(enable[c], m)

\* A second notify on channel 0 has queued exactly what the first one latched.
C6_Witness ==
    /\ last.op = "notify" /\ last.irq = 0 /\ last.drive = "none"
    /\ mask[0] = {}
    /\ status(0) # {}
    /\ status(0) = SelectOf(enable[0], last.data)
    /\ pending[0] = status(0)

\* C7: notify, write_enable and write_status with the channel index
\* num_inpins change no field of any channel and drive no output line.
C7_OutOfRangeRejected ==
    [][(last'.irq = num_inpins
          /\ last'.op \in {"notify", "write_enable", "write_status"})
       => (UNCHANGED Moved /\ last'.drive = "none")]_vars

\* A status write for the channel index num_inpins, with channel 0 latched.
C7_Witness ==
    /\ last.op = "write_status" /\ last.irq = num_inpins
    /\ last.data # {}
    /\ status(0) # {}
    /\ status(0) \subseteq last.data

\* C8: write_status(c, 0) changes nothing.
C8_ZeroStatusWrite ==
    [][(last'.op = "write_status" /\ last'.data = {})
       => (UNCHANGED Moved /\ last'.drive = "none")]_vars

\* A zero status write on channel 0 with sources pending and nothing latched.
C8_Witness ==
    /\ last.op = "write_status" /\ last.irq = 0 /\ last.data = {}
    /\ status(0) = {}
    /\ pending[0] # {}

\* C9 as stated: every register reads as the last raw value written to it;
\* for a status register, in the state a status write leaves.
C9_ReadsLastWritten ==
    /\ \A c \in Inpins : aspeed_intc_read(EnOffset(c)) = en_written[c]
    /\ (last.op = "write_status" /\ last.irq \in Inpins)
       => aspeed_intc_read(StatusOffset(last.irq)) = last.data

\* C9 amended: every enable register reads as the last raw value written to
\* it, zero if none.
C9_EnableReadsLastWritten ==
    \A c \in Inpins : aspeed_intc_read(EnOffset(c)) = en_written[c]

\* The enable register of channel 0 was written with fewer bits than are
\* enabled, and a notify and a status write came after.
C9_Witness ==
    /\ last.op = "write_status" /\ last.irq = 0
    /\ en_written[0] # {}
    /\ en_written[0] # enable[0]
    /\ pending[0] # {}

\* C10: a reset leaves enabled, masked, status, pending and the registers at
\* zero and every output line low.
C10_ResetClearsAll ==
    last.op = "reset"
    => /\ \A r \in RegIdx : regs[r] = {}
       /\ \A c \in Inpins : enable[c] = {} /\ mask[c] = {} /\ pending[c] = {}
       /\ \A o \in Outpins : output_pins[o] = 0

\* Every field zero and every output line low: the state a reset leaves when
\* no line was raised.
AtReset ==
    /\ \A r \in RegIdx : regs[r] = {}
    /\ \A c \in Inpins : enable[c] = {} /\ mask[c] = {} /\ pending[c] = {}
    /\ \A o \in Outpins : output_pins[o] = 0

\* The scenario on channel 0: write_enable(0b11), notify(0b11),
\* write_status(0b01), notify(0b11), write_status(0b10).
Scenario1(s) == aspeed_intc_enable_handler(s, EnOffset(0), {0, 1})
Scenario2(s) == NotifyResult(Scenario1(s), 0, {0, 1})
Scenario3(s) == aspeed_intc_status_handler(Scenario2(s), StatusOffset(0), {0})
Scenario4(s) == NotifyResult(Scenario3(s), 0, {0, 1})
Scenario5(s) == aspeed_intc_status_handler(Scenario4(s), StatusOffset(0), {1})

\* C11 as stated: from reset, the second notify(0, 0b11) arrives with
\* status[0] == 0b10 and leaves pending[0] == 0b10, and the write_status(0,
\* 0b10) that follows replays that value into status[0], with pending[0] == 0
\* and line 0 high.
C11_ScenarioOnlyBit1 ==
    AtReset
    => /\ Scenario3(State).regs[StatusReg(0)] = {1}
       /\ Scenario4(State).pending[0] = {1}
       /\ Scenario5(State).regs[StatusReg(0)] = Scenario4(State).pending[0]
       /\ Scenario5(State).pending[0] = {}
       /\ Scenario5(State).output_pins[0] = 1

\* C11 amended: from reset, the second notify(0, 0b11) arrives with
\* status[0] == 0b10 and leaves pending[0] == 0b11 (both asserted and enabled
\* sources are queued), and the write_status(0, 0b10) that follows replays
\* that value into status[0], with pending[0] == 0 and line 0 high.
C11_ScenarioBothBits ==
    AtReset
    => /\ Scenario3(State).regs[StatusReg(0)] = {1}
       /\ Scenario3(State).pending[0] = {}
       /\ Scenario4(State).pending[0] = {0, 1}
       /\ Scenario4(State).regs[StatusReg(0)] = {1}
       /\ Scenario5(State).regs[StatusReg(0)] = {0, 1}
       /\ Scenario5(State).pending[0] = {}
       /\ Scenario5(State).output_pins[0] = 1

\* The state at the end of the scenario.
C11_Witness ==
    /\ last.op = "write_status" /\ last.irq = 0 /\ last.data = {1}
    /\ last.drive = "high"
    /\ enable[0] = {0, 1}
    /\ en_written[0] = {0, 1}
    /\ mask[0] = {}
    /\ status(0) = {0, 1}
    /\ pending[0] = {}
    /\ output_pins[0] = 1

\* C12: notify(c, m) with select = m & enabled[c] changes nothing when select
\* is zero; queues select in pending[c], leaving status and the line, when
\* status[c] or masked[c] is non-zero; otherwise sets status[c] to select and
\* drives the line high, leaving pending[c].  It never changes enabled or
\* masked.
C12_NotifyCases ==
    [][\A c \in Inpins :
         IsStep("notify", c)
         => LET select == last'.data \cap enable[c]
            IN /\ enable' = enable
               /\ mask' = mask
               /\ select = {}
                  => (UNCHANGED Moved /\ last'.drive = "none")
               /\ (select # {} /\ (status(c) # {} \/ mask[c] # {}))
                  => /\ pending'[c] = pending[c] \cup select
                     /\ regs' = regs
                     /\ output_pins' = output_pins
                     /\ last'.drive = "none"
               /\ (select # {} /\ status(c) = {} /\ mask[c] = {})
                  => /\ regs'[StatusReg(c)] = select
                     /\ output_pins'[c] = 1
                     /\ last'.drive = "high"
                     /\ pending' = pending]_vars

\* A notify on masked channel 0 with nothing latched has queued its sources.
C12_Witness ==
    /\ last.op = "notify" /\ last.irq = 0 /\ last.drive = "none"
    /\ last.data \cap enable[0] # {}
    /\ last.data \cap enable[0] \subseteq pending[0]
    /\ mask[0] # {}
    /\ status(0) = {}

\* C13: a write_status(c, value) with value other than zero and all-ones that
\* leaves status[c] & ~value non-zero sets status[c] to that and changes
\* neither pending[c] nor the output line.
C13_PartialAck ==
    [][\A c \in Inpins :
         (IsStep("write_status", c) /\ last'.data \notin {{}, AllOnes}
            /\ status(c) \ last'.data # {})
         => /\ regs'[StatusReg(c)] = status(c) \ last'.data
            /\ pending' = pending
            /\ output_pins' = output_pins
            /\ last'.drive = "none"]_vars

\* A status write on channel 0 has left sources latched, with others queued.
C13_Witness ==
    /\ last.op = "write_status" /\ last.irq = 0 /\ last.drive = "none"
    /\ last.data \notin {{}, AllOnes}
    /\ last.data \subseteq enable[0]
    /\ status(0) # {}
    /\ pending[0] # {}
    /\ output_pins[0] = 1

\* C14: a write_status(c, value) with value other than zero and all-ones that
\* leaves status[c] & ~value zero sets status[c] to pending[c], empties
\* pending[c] and drives the line high when pending[c] is non-zero; leaves
\* status[c] zero and drives the line low when pending[c] is zero.
C14_FullDrain ==
    [][\A c \in Inpins :
         (IsStep("write_status", c) /\ last'.data \notin {{}, AllOnes}
            /\ status(c) \ last'.data = {})
         => IF pending[c] # {}
            THEN /\ regs'[StatusReg(c)] = pending[c]
                 /\ pending'[c] = {}
                 /\ output_pins'[c] = 1
                 /\ last'.drive = "high"
            ELSE /\ regs'[StatusReg(c)] = {}
                 /\ pending'[c] = {}
                 /\ output_pins'[c] = 0
                 /\ last'.drive = "low"]_vars

\* A status write on channel 0 has drained status with nothing queued and
\* lowered the line.
C14_Witness ==
    /\ last.op = "write_status" /\ last.irq = 0 /\ last.drive = "low"
    /\ enable[0] # {}
    /\ status(0) = {}
    /\ pending[0] = {}
    /\ output_pins[0] = 0

\* C15: the output line of c goes from high to low, and sources leave
\* pending[c], only in a write_status(c, value) step with value other than
\* zero and all-ones that leaves status[c] & ~value zero; the sources that
\* leave pending[c] are then in status[c].
C15_OnlyFullDrain ==
    [][\A c \in Inpins :
         ((output_pins[c] = 1 /\ output_pins'[c] = 0)
            \/ (\E b \in pending[c] : b \notin pending'[c]))
         => /\ IsStep("write_status", c)
            /\ last'.data \notin {{}, AllOnes}
            /\ status(c) \ last'.data = {}
            /\ pending[c] \subseteq regs'[StatusReg(c)]]_vars

\* A replay on channel 0 while a source is masked.
C15_Witness ==
    /\ last.op = "write_status" /\ last.irq = 0 /\ last.drive = "high"
    /\ mask[0] # {}
    /\ status(0) # {}
    /\ pending[0] = {}
    /\ output_pins[0] = 1

\* C16: a write_enable(c, value) that introduces no new enabled bit (and is
\* not the zero write with nothing enabled), with change the old enable
\* register XOR value, sets masked[c] to masked[c] & ~change when change &
\* value is non-zero and to masked[c] | change otherwise; the enable register
\* becomes value.
C16_MaskUnmask ==
    [][\A c \in Inpins :
         (IsStep("write_enable", c) /\ last'.data \subseteq enable[c]
            /\ ~(last'.data = {} /\ enable[c] = {}))
         => LET value == last'.data
                old == regs[EnReg(c)]
                change == (old \ value) \cup (value \ old)
            IN /\ IF change \cap value # {}
                  THEN mask'[c] = mask[c] \ change
                  ELSE mask'[c] = mask[c] \cup change
               /\ regs'[EnReg(c)] = value]_vars

\* After a write of already enabled bits on channel 0, an enabled source reads
\* 0 in the enable register and is not masked.
C16_Witness ==
    /\ last.op = "write_enable" /\ last.irq = 0
    /\ last.data # {}
    /\ last.data \subseteq enable[0]
    /\ last.data # enable[0]
    /\ aspeed_intc_read(EnOffset(0)) = last.data
    /\ mask[0] = {}
    /\ pending[0] # {}
    /\ status(0) = {}
    /\ output_pins[0] = 0

\* C17: no notify, write_enable or write_status step removes a bit from
\* enabled[c].
C17_EnabledGrows ==
    [][\A c \in Inpins : enable[c] \subseteq enable'[c]]_vars

\* A zero write to the enable register of channel 0 with sources enabled.
C17_Witness ==
    /\ last.op = "write_enable" /\ last.irq = 0 /\ last.data = {}
    /\ enable[0] # {}
    /\ aspeed_intc_read(EnOffset(0)) = {}

\* C18: masked[c], status[c], pending[c] and the enable register of c are
\* subsets of enabled[c].
C18_WithinEnabled ==
    \A c \in Inpins :
        /\ mask[c] \subseteq enable[c]
        /\ status(c) \subseteq enable[c]
        /\ pending[c] \subseteq enable[c]
        /\ regs[EnReg(c)] \subseteq enable[c]

\* Channel 0 with sources masked, latched and queued, after a notify
\* that asserted a source that is not enabled.
C18_Witness ==
    /\ last.op = "notify" /\ last.irq = 0
    /\ ~(last.data \subseteq enable[0])
    /\ mask[0] # {}
    /\ status(0) # {}
    /\ pending[0] # {}

\* C19: in every reachable state a masked source reads 0 in the enable
\* register: masked[c] & enable register of c is zero.
C19_MaskedReadsZero ==
    \A c \in Inpins : mask[c] \cap regs[EnReg(c)] = {}

\* C20: a notify, write_enable or write_status on channel c leaves enabled,
\* masked, status, pending, the registers and the output line of every other
\* channel unchanged.
C20_ChannelIsolation ==
    [][\A c \in Inpins :
         (last'.irq = c
            /\ last'.op \in {"notify", "write_enable", "write_status"})
         => \A d \in Inpins \ {c} :
              /\ enable'[d] = enable[d]
              /\ mask'[d] = mask[d]
              /\ pending'[d] = pending[d]
              /\ regs'[EnReg(d)] = regs[EnReg(d)]
              /\ regs'[StatusReg(d)] = regs[StatusReg(d)]
              /\ output_pins'[d] = output_pins[d]]_vars

\* A status write has drained channel 1 and lowered its line while channel 0
\* has sources latched and queued and its line high.
C20_Witness ==
    /\ last.op = "write_status" /\ last.irq = 1 /\ last.drive = "low"
    /\ enable[1] # {}
    /\ output_pins[1] = 0
    /\ status(0) # {}
    /\ pending[0] # {}
    /\ output_pins[0] = 1
====
